---- MODULE Spec2Model ----
(***************************************************************************)
(* A model of autogradpp's src/detail.cpp: the hardware probes             *)
(* (getNumGPUs, hasCuda, hasCudnn, setSeed), the backward() entry points   *)
(* and the Variant tagged union.                                           *)
(*                                                                         *)
(* Every call is one action.  A call leaves its outcome in res: a record   *)
(* with outcome "return" and the returned value, or with outcome "throw"   *)
(* and the message of the exception, and then no value field at all.       *)
(***************************************************************************)
EXTENDS Integers, Sequences, FiniteSets

VARIABLES
  cudaEnabled,   \* AT_CUDA_ENABLED() of the build
  cudnnEnabled,  \* AT_CUDNN_ENABLED() of the build
  probe,         \* <<err, count>> as left by the latest cudaGetDeviceCount, <<>> before any
  cpuSeed,       \* seed of the CPU default generator, NoSeed until setSeed set one
  gpuSeed,       \* device -> seed of its generator, NoSeed until THCRandom_manualSeedAll
  cudaInit,      \* whether lazyInitCUDA() has run
  engine,        \* detail::engine: number of execute calls and the arguments of the latest
  variant_,      \* Variant::variant_ of the Variant constructed last
  arg,           \* the constructor used for it and its argument
  res            \* the latest call and its outcome

vars == <<cudaEnabled, cudnnEnabled, probe, cpuSeed, gpuSeed, cudaInit,
          engine, variant_, arg, res>>

----------------------------------------------------------------------------
(* Bounds of the model *)

MaxGPUs == 2
MaxSeed == 1
MaxCalls == 2
MaxNumel == 1
MaxOutputNr == 1
MaxNum == 1
MaxLen == 2

----------------------------------------------------------------------------
(* Outcomes of a call *)

Return(op, a, v) == [op |-> op, args |-> a, outcome |-> "return", value |-> v]

Throw(op, a, type, msg) ==
  [op |-> op, args |-> a, outcome |-> "throw", type |-> type, what |-> msg]

NoCall == [op |-> "none", args |-> <<>>, outcome |-> "none"]

----------------------------------------------------------------------------
(* The CUDA runtime as getNumGPUs sees it *)

cudaSuccess == 0
cudaErrorInitializationError == 3
cudaErrorInsufficientDriver == 35
cudaErrorNoDevice == 38

CudaErrors == {cudaSuccess, cudaErrorInitializationError,
               cudaErrorInsufficientDriver, cudaErrorNoDevice}

\* What cudaGetDeviceCount can leave in count: the number of devices on
\* success, and on failure whatever the uninitialised int held (never read).
Counts == 0..MaxGPUs

cudaGetErrorString(err) ==
  CASE err = cudaSuccess -> "no error"
    [] err = cudaErrorInitializationError -> "initialization error"
    [] err = cudaErrorInsufficientDriver ->
         "CUDA driver version is insufficient for CUDA runtime version"
    [] err = cudaErrorNoDevice -> "no CUDA-capable device is detected"
    [] OTHER -> "unrecognized error code"

Digit(d) == <<"0", "1", "2", "3", "4", "5", "6", "7", "8", "9">>[d + 1]

RECURSIVE Digits(_)
Digits(n) == IF n < 10 THEN <<Digit(n)>> ELSE Digits(n \div 10) \o <<Digit(n % 10)>>

\* std::to_string of an int: the decimal digits, after a minus sign if negative
to_string(n) == IF n < 0 THEN <<"-">> \o Digits(-n) ELSE Digits(n)

\* The message getNumGPUs builds, as the sequence of its pieces
ErrorMsg(err) == <<"CUDA error (">> \o to_string(err) \o <<"): ">> \o <<cudaGetErrorString(err)>>

\* getNumGPUs with every failure of the query turned into a count of 0
getNumGPUs_swallows(op, a, cuda, err, count) ==
  IF cuda
    THEN IF err # cudaSuccess THEN Return(op, a, 0) ELSE Return(op, a, count)
    ELSE Return(op, a, 0)

\* getNumGPUs without the test for cudaErrorNoDevice
getNumGPUs_noDeviceThrows(op, a, cuda, err, count) ==
  IF cuda
    THEN IF err # cudaSuccess
           THEN Throw(op, a, "std::runtime_error", ErrorMsg(err))
           ELSE Return(op, a, count)
    ELSE Return(op, a, 0)

\* The body of getNumGPUs given what cudaGetDeviceCount answers: the outcome
\* of the call on behalf of caller op with arguments a.
getNumGPUs(op, a, cuda, err, count) ==
  IF cuda
    THEN IF err = cudaErrorNoDevice
           THEN Return(op, a, 0)
           ELSE IF err # cudaSuccess
                  THEN Throw(op, a, "std::runtime_error", ErrorMsg(err))
                  ELSE Return(op, a, count)
    ELSE Return(op, a, 0)

\* probe after a call of getNumGPUs: the query runs only in a CUDA build
Probed(err, count) == IF cudaEnabled THEN <<err, count>> ELSE probe

\* hasCuda with >= for >
hasCuda_ge(op, a, cuda, err, count) ==
  LET n == getNumGPUs(op, a, cuda, err, count)
  IN  IF n.outcome = "throw" THEN n ELSE Return(op, a, n.value >= 0)

\* hasCuda: getNumGPUs() > 0, an exception passing through
hasCuda(op, a, cuda, err, count) ==
  LET n == getNumGPUs(op, a, cuda, err, count)
  IN  IF n.outcome = "throw" THEN n ELSE Return(op, a, n.value > 0)

\* hasCudnn: hasCuda() && AT_CUDNN_ENABLED()
hasCudnn(op, a, cuda, cudnn, err, count) ==
  LET h == hasCuda(op, a, cuda, err, count)
  IN  IF h.outcome = "throw" THEN h ELSE Return(op, a, h.value /\ cudnn)

NoSeed == -1
Seeds == 0..MaxSeed
Devices == 1..MaxGPUs

\* THCRandom_manualSeedAll: every device the runtime reported is seeded
THCRandom_manualSeedAll(g, count, seed) ==
  [d \in Devices |-> IF d <= count THEN seed ELSE g[d]]

----------------------------------------------------------------------------
(* Actions of the hardware probes *)

GetNumGPUs ==
  \E err \in CudaErrors, count \in Counts :
    /\ res' = getNumGPUs("getNumGPUs", <<>>, cudaEnabled, err, count)
    /\ probe' = Probed(err, count)
    /\ UNCHANGED <<cudaEnabled, cudnnEnabled, cpuSeed, gpuSeed, cudaInit,
                   engine, variant_, arg>>

HasCuda ==
  \E err \in CudaErrors, count \in Counts :
    /\ res' = hasCuda("hasCuda", <<>>, cudaEnabled, err, count)
    /\ probe' = Probed(err, count)
    /\ UNCHANGED <<cudaEnabled, cudnnEnabled, cpuSeed, gpuSeed, cudaInit,
                   engine, variant_, arg>>

HasCudnn ==
  \E err \in CudaErrors, count \in Counts :
    /\ res' = hasCudnn("hasCudnn", <<>>, cudaEnabled, cudnnEnabled, err, count)
    /\ probe' = Probed(err, count)
    /\ UNCHANGED <<cudaEnabled, cudnnEnabled, cpuSeed, gpuSeed, cudaInit,
                   engine, variant_, arg>>

\* setSeed without the test of getNumGPUs() > 0
setSeed_unguarded(seed, cuda, cpu, gpu, init, err, count) ==
  LET n == getNumGPUs("setSeed", <<seed>>, cuda, err, count)
      done == Return("setSeed", <<seed>>, "void")
  IN  IF ~cuda
        THEN [cpu |-> seed, gpu |-> gpu, init |-> init, res |-> done]
        ELSE IF n.outcome = "throw"
               THEN [cpu |-> seed, gpu |-> gpu, init |-> init, res |-> n]
               ELSE [cpu |-> seed,
                     gpu |-> THCRandom_manualSeedAll(gpu, n.value, seed),
                     init |-> TRUE, res |-> done]

\* setSeed with the GPUs probed before the CPU generator is seeded
setSeed_probesFirst(seed, cuda, cpu, gpu, init, err, count) ==
  LET n == getNumGPUs("setSeed", <<seed>>, cuda, err, count)
      done == Return("setSeed", <<seed>>, "void")
  IN  IF ~cuda
        THEN [cpu |-> seed, gpu |-> gpu, init |-> init, res |-> done]
        ELSE IF n.outcome = "throw"
               THEN [cpu |-> cpu, gpu |-> gpu, init |-> init, res |-> n]
               ELSE IF n.value > 0
                      THEN [cpu |-> seed,
                            gpu |-> THCRandom_manualSeedAll(gpu, n.value, seed),
                            init |-> TRUE, res |-> done]
                      ELSE [cpu |-> seed, gpu |-> gpu, init |-> init, res |-> done]

\* The body of setSeed(seed) given what cudaGetDeviceCount answers: the CPU
\* default generator is seeded first, then the GPUs are probed, and only with
\* a device present is CUDA initialised and every GPU generator seeded.
setSeed(seed, cuda, cpu, gpu, init, err, count) ==
  LET n == getNumGPUs("setSeed", <<seed>>, cuda, err, count)
      done == Return("setSeed", <<seed>>, "void")
  IN  IF ~cuda
        THEN [cpu |-> seed, gpu |-> gpu, init |-> init, res |-> done]
        ELSE IF n.outcome = "throw"
               THEN [cpu |-> seed, gpu |-> gpu, init |-> init, res |-> n]
               ELSE IF n.value > 0
                      THEN [cpu |-> seed,
                            gpu |-> THCRandom_manualSeedAll(gpu, n.value, seed),
                            init |-> TRUE, res |-> done]
                      ELSE [cpu |-> seed, gpu |-> gpu, init |-> init, res |-> done]

SetSeed ==
  \E seed \in Seeds, err \in CudaErrors, count \in Counts :
    LET s == setSeed(seed, cudaEnabled, cpuSeed, gpuSeed, cudaInit, err, count)
    IN  /\ cpuSeed' = s.cpu
        /\ gpuSeed' = s.gpu
        /\ cudaInit' = s.init
        /\ res' = s.res
        /\ probe' = Probed(err, count)
        /\ UNCHANGED <<cudaEnabled, cudnnEnabled, engine, variant_, arg>>

NextDevice == GetNumGPUs \/ HasCuda \/ HasCudnn \/ SetSeed

----------------------------------------------------------------------------
(* Tensors and Variables as backward and Variant use them *)

ElemVals == {0, 1}

\* A data tensor: its elements in order; its length stands for its shape
Tensors == UNION {[1..n -> ElemVals] : n \in 0..MaxNumel}

\* grad_fn() of a Variable: "null" for a leaf
GradFns == {"null", "AddBackward", "MulBackward"}

\* A Variable: a leaf has no grad_fn and output_nr 0, and what has a grad_fn
\* requires grad
Variables ==
  {v \in [data : Tensors, grad_fn : GradFns, output_nr : 0..MaxOutputNr,
          requires_grad : BOOLEAN] :
     /\ v.grad_fn = "null" => v.output_nr = 0
     /\ v.grad_fn # "null" => v.requires_grad}

\* An at::Tensor handle that refers to a Variable's implementation, which is
\* what Variable(Tensor) accepts
AsTensor(v) == [pImpl |-> v]

TensorHandles == {AsTensor(v) : v \in Variables}

\* Variable(Tensor x): the Variable that shares x's implementation
Variable(t) == t.pImpl

\* at::ones_like(t): ones, shaped like t
ones_like(t) == [i \in 1..Len(t) |-> 1]

\* Var(data, requires_grad): a fresh leaf Variable over data
Var(data, requires_grad) ==
  [data |-> data, grad_fn |-> "null", output_nr |-> 0, requires_grad |-> requires_grad]

\* edgelst.emplace_back(function, input_nr)
Edge(function, input_nr) == [function |-> function, input_nr |-> input_nr]

\* Engine::execute as seen from here: the call is counted and its arguments kept
execute(e, roots, inputs, keep_graph, create_graph) ==
  [calls |-> e.calls + 1,
   last |-> [roots |-> roots, inputs |-> inputs,
             keep_graph |-> keep_graph, create_graph |-> create_graph]]

\* backward(Variable) seeding with the loss itself instead of ones
backwardVariable_seedsLoss(e, loss, keep_graph) ==
  LET edgelst == Append(<<>>, Edge(loss.grad_fn, loss.output_nr))
      varlst == Append(<<>>, Var(loss.data, FALSE))
  IN  execute(e, edgelst, varlst, keep_graph, FALSE)

\* backward(Variable loss, bool keep_graph): the engine after the call
backwardVariable(e, loss, keep_graph) ==
  LET edgelst == Append(<<>>, Edge(loss.grad_fn, loss.output_nr))
      varlst == Append(<<>>, Var(ones_like(loss.data), FALSE))
  IN  execute(e, edgelst, varlst, keep_graph, FALSE)

\* backward(Tensor) that does not pass keep_graph on
backwardTensor_dropsKeepGraph(e, loss, keep_graph) ==
  LET tmp == Variable(loss)
  IN  backwardVariable(e, tmp, FALSE)

\* backward(Tensor loss, bool keep_graph): the engine after the call
backwardTensor(e, loss, keep_graph) ==
  LET tmp == Variable(loss)
  IN  backwardVariable(e, tmp, keep_graph)

BackwardVariable ==
  \E loss \in Variables, keep_graph \in BOOLEAN :
    /\ engine.calls < MaxCalls
    /\ engine' = backwardVariable(engine, loss, keep_graph)
    /\ res' = Return("backward(Variable)", <<loss, keep_graph>>, "void")
    /\ UNCHANGED <<cudaEnabled, cudnnEnabled, probe, cpuSeed, gpuSeed, cudaInit,
                   variant_, arg>>

BackwardTensor ==
  \E loss \in TensorHandles, keep_graph \in BOOLEAN :
    /\ engine.calls < MaxCalls
    /\ engine' = backwardTensor(engine, loss, keep_graph)
    /\ res' = Return("backward(Tensor)", <<loss, keep_graph>>, "void")
    /\ UNCHANGED <<cudaEnabled, cudnnEnabled, probe, cpuSeed, gpuSeed, cudaInit,
                   variant_, arg>>

NextBackward == BackwardVariable \/ BackwardTensor

----------------------------------------------------------------------------
(* Variant: a mapbox variant over nine alternatives *)

T_Variable == "Variable"
T_string == "std::string"
T_vector == "std::vector<Variant>"
T_map == "std::unordered_map<std::string,Variant>"

\* The types GEN_TYPE is instantiated with
GenTypes == {"float", "double", "bool", "int32_t", "int64_t"}

\* mapbox::util::recursive_wrapper<T>
recursive_wrapper(T) ==
  CASE T = T_vector -> "recursive_wrapper<std::vector<Variant>>"
    [] T = T_map -> "recursive_wrapper<std::unordered_map<std::string,Variant>>"

\* The alternative that holds a value of static type T: T itself when T is an
\* alternative, and else its recursive_wrapper
Alternative(T) == IF T \in {T_vector, T_map} THEN recursive_wrapper(T) ELSE T

\* A variant: the active alternative, then the value it holds
Which(v) == v[1]

Held(v) == v[2]

\* variant_ = x, for x of static type T
Assign(T, x) == <<Alternative(T), x>>

\* variant_.is<T>()
is(v, T) == Which(v) = T

\* variant_.get<T>(): the value held, or bad_variant_access when another
\* alternative is active
get_(op, v, T) ==
  IF is(v, T)
    THEN Return(op, <<>>, Held(v))
    ELSE Throw(op, <<>>, "mapbox::util::bad_variant_access", <<"in get<T>()">>)

Variant_Variable(x) == Assign(T_Variable, x)

Variant_Tensor(x) == Variant_Variable(Variable(x))

Variant_string(x) == Assign(T_string, x)

Variant_vector(x) == Assign(T_vector, x)

Variant_vector_move(x) == Assign(T_vector, x)

\* The loop of Variant(initializer_list) inserting at the front
RECURSIVE EmplaceFront(_, _, _)
EmplaceFront(lst, l, i) ==
  IF i > Len(l) THEN lst ELSE EmplaceFront(<<Variant_Variable(l[i])>> \o lst, l, i + 1)

Variant_initializer_list_reversed(l) ==
  LET lst == EmplaceFront(<<>>, l, 1)
  IN  Assign(T_vector, lst)

\* lst after the loop over l[i..]: each Variable is emplaced as a Variant
RECURSIVE EmplaceFrom(_, _, _)
EmplaceFrom(lst, l, i) ==
  IF i > Len(l) THEN lst ELSE EmplaceFrom(Append(lst, Variant_Variable(l[i])), l, i + 1)

Variant_initializer_list(l) ==
  LET lst == EmplaceFrom(<<>>, l, 1)
  IN  Assign(T_vector, lst)

Variant_map(x) == Assign(T_map, x)

Variant_map_move(x) == Assign(T_map, x)

\* is##NAME and get##NAME of GEN_TYPE(TYP, NAME)
IsName(TYP) ==
  CASE TYP = "float" -> "isFloat"
    [] TYP = "double" -> "isDouble"
    [] TYP = "bool" -> "isBool"
    [] TYP = "int32_t" -> "isInt32"
    [] TYP = "int64_t" -> "isInt64"

GetName(TYP) ==
  CASE TYP = "float" -> "getFloat"
    [] TYP = "double" -> "getDouble"
    [] TYP = "bool" -> "getBool"
    [] TYP = "int32_t" -> "getInt32"
    [] TYP = "int64_t" -> "getInt64"

\* The GEN_TYPE constructor storing a float as a double
Variant_GEN_promotes(TYP, x) == Assign(IF TYP = "float" THEN "double" ELSE TYP, x)

\* GEN_TYPE(TYP, NAME): the constructor, is##NAME and get##NAME
Variant_GEN(TYP, x) == Assign(TYP, x)

isGEN(TYP, v) == is(v, TYP)

getGEN(TYP, v) == get_(GetName(TYP), v, TYP)

get(v) == get_("get", v, T_Variable)

getString(v) == get_("getString", v, T_string)

getList(v) == get_("getList", v, recursive_wrapper(T_vector))

getDict(v) == get_("getDict", v, recursive_wrapper(T_map))

isVariable(v) == is(v, T_Variable)

isString(v) == is(v, T_string)

\* isList asking for the vector itself, not for its recursive_wrapper
isList_unwrapped(v) == is(v, T_vector)

isList(v) == is(v, recursive_wrapper(T_vector))

isDict(v) == is(v, recursive_wrapper(T_map))

----------------------------------------------------------------------------
(* The values the constructors are called with *)

\* The values of float, double, int32_t and int64_t; no constructor converts
Nums == (-MaxNum)..MaxNum

GenValues(TYP) == IF TYP = "bool" THEN BOOLEAN ELSE Nums

Strs == {"", "a", "b"}

Keys == {"a", "b"}

\* What Var(t) makes: leaf Variables that require grad
LeafVariables == {Var(t, TRUE) : t \in Tensors}

\* The Variants that lists and dictionaries are filled with: one of every
\* alternative, the numeric ones with the same payload
Elems ==
  {Variant_GEN(TYP, 1) : TYP \in GenTypes \ {"bool"}}
    \cup {Variant_GEN("bool", TRUE), Variant_string("a"),
          Variant_Variable(Var(<<1>>, TRUE)), Variant_vector(<<>>),
          Variant_vector(<<Variant_GEN("float", 1)>>),
          Variant_map([k \in {"a"} |-> Variant_GEN("int64_t", 1)])}

Lists == UNION {[1..n -> Elems] : n \in 0..MaxLen}

Dicts == UNION {[K -> Elems] : K \in SUBSET Keys}

InitLists == UNION {[1..n -> LeafVariables] : n \in 0..MaxLen}

----------------------------------------------------------------------------
(* Actions of Variant: one Variant is constructed, by any of the constructors, *)
(* and is then read through its const member functions                      *)

notVariant == <<cudaEnabled, cudnnEnabled, probe, cpuSeed, gpuSeed, cudaInit, engine>>

CtorName(TYP) ==
  CASE TYP = "float" -> "Variant(float)"
    [] TYP = "double" -> "Variant(double)"
    [] TYP = "bool" -> "Variant(bool)"
    [] TYP = "int32_t" -> "Variant(int32_t)"
    [] TYP = "int64_t" -> "Variant(int64_t)"

Constructed(ctor, x) == [ctor |-> ctor, x |-> x]

NewFromTensor ==
  \E x \in TensorHandles :
    /\ arg = <<>>
    /\ variant_' = Variant_Tensor(x)
    /\ arg' = Constructed("Variant(Tensor)", x)
    /\ res' = Return("Variant(Tensor)", <<>>, "void")
    /\ UNCHANGED notVariant

NewFromVariable ==
  \E x \in Variables :
    /\ arg = <<>>
    /\ variant_' = Variant_Variable(x)
    /\ arg' = Constructed("Variant(Variable)", x)
    /\ res' = Return("Variant(Variable)", <<>>, "void")
    /\ UNCHANGED notVariant

NewFromString ==
  \E x \in Strs :
    /\ arg = <<>>
    /\ variant_' = Variant_string(x)
    /\ arg' = Constructed("Variant(string)", x)
    /\ res' = Return("Variant(string)", <<>>, "void")
    /\ UNCHANGED notVariant

NewFromList ==
  \E x \in Lists :
    /\ arg = <<>>
    /\ variant_' = Variant_vector(x)
    /\ arg' = Constructed("Variant(vector&)", x)
    /\ res' = Return("Variant(vector&)", <<>>, "void")
    /\ UNCHANGED notVariant

NewFromListMove ==
  \E x \in Lists :
    /\ arg = <<>>
    /\ variant_' = Variant_vector_move(x)
    /\ arg' = Constructed("Variant(vector&&)", x)
    /\ res' = Return("Variant(vector&&)", <<>>, "void")
    /\ UNCHANGED notVariant

NewFromInitList ==
  \E l \in InitLists :
    /\ arg = <<>>
    /\ variant_' = Variant_initializer_list(l)
    /\ arg' = Constructed("Variant(initializer_list)", l)
    /\ res' = Return("Variant(initializer_list)", <<>>, "void")
    /\ UNCHANGED notVariant

NewFromDict ==
  \E x \in Dicts :
    /\ arg = <<>>
    /\ variant_' = Variant_map(x)
    /\ arg' = Constructed("Variant(map&)", x)
    /\ res' = Return("Variant(map&)", <<>>, "void")
    /\ UNCHANGED notVariant

NewFromDictMove ==
  \E x \in Dicts :
    /\ arg = <<>>
    /\ variant_' = Variant_map_move(x)
    /\ arg' = Constructed("Variant(map&&)", x)
    /\ res' = Return("Variant(map&&)", <<>>, "void")
    /\ UNCHANGED notVariant

NewFromGen ==
  \E TYP \in GenTypes :
    \E x \in GenValues(TYP) :
      /\ arg = <<>>
      /\ variant_' = Variant_GEN(TYP, x)
      /\ arg' = Constructed(CtorName(TYP), x)
      /\ res' = Return(CtorName(TYP), <<>>, "void")
      /\ UNCHANGED notVariant

\* The const member functions: only the outcome of the call is new

Get ==
  /\ arg # <<>>
  /\ res' = get(variant_)
  /\ UNCHANGED <<notVariant, variant_, arg>>

GetString ==
  /\ arg # <<>>
  /\ res' = getString(variant_)
  /\ UNCHANGED <<notVariant, variant_, arg>>

GetList ==
  /\ arg # <<>>
  /\ res' = getList(variant_)
  /\ UNCHANGED <<notVariant, variant_, arg>>

GetDict ==
  /\ arg # <<>>
  /\ res' = getDict(variant_)
  /\ UNCHANGED <<notVariant, variant_, arg>>

GetGen ==
  \E TYP \in GenTypes :
    /\ arg # <<>>
    /\ res' = getGEN(TYP, variant_)
    /\ UNCHANGED <<notVariant, variant_, arg>>

IsVariable ==
  /\ arg # <<>>
  /\ res' = Return("isVariable", <<>>, isVariable(variant_))
  /\ UNCHANGED <<notVariant, variant_, arg>>

IsString ==
  /\ arg # <<>>
  /\ res' = Return("isString", <<>>, isString(variant_))
  /\ UNCHANGED <<notVariant, variant_, arg>>

IsList ==
  /\ arg # <<>>
  /\ res' = Return("isList", <<>>, isList(variant_))
  /\ UNCHANGED <<notVariant, variant_, arg>>

IsDict ==
  /\ arg # <<>>
  /\ res' = Return("isDict", <<>>, isDict(variant_))
  /\ UNCHANGED <<notVariant, variant_, arg>>

IsGen ==
  \E TYP \in GenTypes :
    /\ arg # <<>>
    /\ res' = Return(IsName(TYP), <<>>, isGEN(TYP, variant_))
    /\ UNCHANGED <<notVariant, variant_, arg>>

NextVariant ==
  \/ NewFromTensor \/ NewFromVariable \/ NewFromString \/ NewFromList
  \/ NewFromListMove \/ NewFromInitList \/ NewFromDict \/ NewFromDictMove
  \/ NewFromGen
  \/ Get \/ GetString \/ GetList \/ GetDict \/ GetGen
  \/ IsVariable \/ IsString \/ IsList \/ IsDict \/ IsGen

----------------------------------------------------------------------------

Init ==
  /\ cudaEnabled \in BOOLEAN
  /\ cudnnEnabled \in BOOLEAN
  /\ probe = <<>>
  /\ cpuSeed = NoSeed
  /\ gpuSeed = [d \in Devices |-> NoSeed]
  /\ cudaInit = FALSE
  /\ engine = [calls |-> 0, last |-> <<>>]
  /\ variant_ = <<>>
  /\ arg = <<>>
  /\ res = NoCall

SpecDevice == Init /\ [][NextDevice]_vars

\* backward and Variant are compiled the same in every build: theirs is the
\* build with CUDA and cuDNN
InitFullBuild == Init /\ cudaEnabled /\ cudnnEnabled

SpecBackward == InitFullBuild /\ [][NextBackward]_vars

SpecVariant == InitFullBuild /\ [][NextVariant]_vars

\* The three parts share no state but res: the program is their interleaving
Next == NextDevice \/ NextBackward \/ NextVariant

Spec == Init /\ [][Next]_vars

----------------------------------------------------------------------------
(* Properties of the hardware probes, checked under SpecDevice *)

DigitValue(c) ==
  CASE c = "0" -> 0 [] c = "1" -> 1 [] c = "2" -> 2 [] c = "3" -> 3 [] c = "4" -> 4
    [] c = "5" -> 5 [] c = "6" -> 6 [] c = "7" -> 7 [] c = "8" -> 8 [] c = "9" -> 9

\* The number a sequence of decimal digits reads as
RECURSIVE ParseDigits(_)
ParseDigits(ds) ==
  IF Len(ds) = 0 THEN 0
  ELSE 10 * ParseDigits(SubSeq(ds, 1, Len(ds) - 1)) + DigitValue(ds[Len(ds)])

\* The latest device query reported a status other than success and no device
QueryFailed ==
  /\ cudaEnabled
  /\ probe # <<>>
  /\ probe[1] \notin {cudaSuccess, cudaErrorNoDevice}

\* The number of devices the latest query stands for, when it did not fail
ReportedCount ==
  IF cudaEnabled /\ probe # <<>> /\ probe[1] = cudaSuccess THEN probe[2] ELSE 0

\* res is a std::runtime_error raised for the status the latest query reported
RaisedForProbe ==
  /\ res.outcome = "throw"
  /\ res.type = "std::runtime_error"
  /\ "value" \notin DOMAIN res
  /\ Len(res.what) >= 4
  /\ res.what[1] = "CUDA error ("
  /\ ParseDigits(SubSeq(res.what, 2, Len(res.what) - 2)) = probe[1]
  /\ res.what[Len(res.what) - 1] = "): "
  /\ res.what[Len(res.what)] = cudaGetErrorString(probe[1])

\* C1: in a CUDA build, whenever the device-count query reports a status
\* other than success and other than "no device", getNumGPUs raises a
\* std::runtime_error whose message carries the numeric code and the
\* driver's error string, and returns no count.
C1_FailedQueryRaises ==
  (res.op = "getNumGPUs" /\ QueryFailed) => RaisedForProbe

C1_Witness ==
  /\ res.op = "getNumGPUs"
  /\ res.outcome = "throw"
  /\ probe = <<cudaErrorInsufficientDriver, 2>>
  /\ res.what[2] = "3" /\ res.what[3] = "5"

\* C2: getNumGPUs returns 0 without raising when the query reports "no
\* device", returns exactly the reported count when the query succeeds, and
\* returns 0 on every call of a build without CUDA.
C2_CountReturned ==
  res.op = "getNumGPUs" =>
    /\ ~cudaEnabled => (res.outcome = "return" /\ res.value = 0)
    /\ (cudaEnabled /\ probe[1] = cudaErrorNoDevice) =>
         (res.outcome = "return" /\ res.value = 0)
    /\ (cudaEnabled /\ probe[1] = cudaSuccess) =>
         (res.outcome = "return" /\ res.value = probe[2])

C2_Witness ==
  /\ res.op = "getNumGPUs"
  /\ cudaEnabled
  /\ probe = <<cudaErrorNoDevice, 2>>
  /\ res.outcome = "return"
  /\ res.value = 0

\* C6: hasCuda returns true exactly when the device count is greater than 0,
\* hasCudnn returns true only if moreover cuDNN is compiled in, so both return
\* false with zero devices or without CUDA; and when the query fails with an
\* error other than "no device" both raise the runtime error.
C6_ProbesFollowCount ==
  /\ (res.op \in {"hasCuda", "hasCudnn"} /\ QueryFailed) => RaisedForProbe
  /\ (res.op = "hasCuda" /\ ~QueryFailed) =>
       (res.outcome = "return" /\ res.value = (ReportedCount > 0))
  /\ (res.op = "hasCudnn" /\ ~QueryFailed) =>
       (res.outcome = "return" /\ res.value = (ReportedCount > 0 /\ cudnnEnabled))

C6_Witness ==
  /\ res.op = "hasCudnn"
  /\ res.outcome = "throw"
  /\ ~cudnnEnabled

\* C7: when setSeed(seed) returns normally the CPU default generator holds
\* seed; in a CUDA build with a device count greater than 0 every reported GPU
\* generator holds seed and CUDA is initialised; otherwise the GPU generators
\* and the CUDA initialisation are as they were before the call.
C7_SeedsOnReturn ==
  [][(res'.op = "setSeed" /\ res'.outcome = "return") =>
       /\ cpuSeed' = res'.args[1]
       /\ IF cudaEnabled /\ ReportedCount' > 0
            THEN /\ \A d \in 1..ReportedCount' : gpuSeed'[d] = res'.args[1]
                 /\ cudaInit'
            ELSE /\ gpuSeed' = gpuSeed
                 /\ cudaInit' = cudaInit]_vars

C7_Witness ==
  /\ res.op = "setSeed"
  /\ res.outcome = "return"
  /\ cudaEnabled
  /\ probe[1] = cudaErrorNoDevice
  /\ cpuSeed = res.args[1]
  /\ gpuSeed[1] \notin {NoSeed, cpuSeed}

\* C8: when the query fails with an error other than "no device", setSeed(seed)
\* raises the runtime error with the CPU default generator already holding
\* seed and with every GPU generator, and the CUDA initialisation, as before.
C8_SeedsOnThrow ==
  [][(res'.op = "setSeed" /\ QueryFailed') =>
       /\ RaisedForProbe'
       /\ cpuSeed' = res'.args[1]
       /\ gpuSeed' = gpuSeed
       /\ cudaInit' = cudaInit]_vars

C8_Witness ==
  /\ res.op = "setSeed"
  /\ res.outcome = "throw"
  /\ cpuSeed = res.args[1]
  /\ gpuSeed[1] \notin {NoSeed, cpuSeed}

----------------------------------------------------------------------------
(* Properties of backward, checked under SpecBackward *)

\* t is a tensor of ones shaped like u
OnesShapedLike(t, u) == Len(t) = Len(u) /\ \A i \in 1..Len(t) : t[i] = 1

\* call is the execute call that backward(loss, keep_graph) is to issue
IsBackwardCall(call, loss, keep_graph) ==
  /\ Len(call.roots) = 1
  /\ call.roots[1].function = loss.grad_fn
  /\ call.roots[1].input_nr = loss.output_nr
  /\ Len(call.inputs) = 1
  /\ OnesShapedLike(call.inputs[1].data, loss.data)
  /\ ~call.inputs[1].requires_grad
  /\ Len(call.roots) = Len(call.inputs)
  /\ call.keep_graph = keep_graph
  /\ call.create_graph = FALSE

\* C5: each backward(loss, keep_graph) on a Variable makes exactly one execute
\* call, with the one root edge (loss.grad_fn(), loss.output_nr()), one seed
\* gradient of ones shaped like loss.data() that does not require grad, the
\* caller's keep_graph, and create_graph false.
C5_BackwardExecutesOnce ==
  [][res'.op = "backward(Variable)" =>
       /\ engine'.calls = engine.calls + 1
       /\ IsBackwardCall(engine'.last, res'.args[1], res'.args[2])]_vars

C5_Witness ==
  /\ res.op = "backward(Variable)"
  /\ engine.calls = 2
  /\ res.args[2]
  /\ res.args[1].grad_fn = "MulBackward"
  /\ res.args[1].output_nr = 1
  /\ res.args[1].data = <<0>>
  /\ engine.last.inputs[1].data = <<1>>

\* C9: backward(Tensor loss, keep_graph) leaves the engine as
\* backward(Variable(loss), keep_graph) would: one more execute call, with the
\* arguments the Variable overload issues for the Variable of that tensor.
C9_TensorOverloadAgrees ==
  [][res'.op = "backward(Tensor)" =>
       /\ engine' = backwardVariable(engine, res'.args[1].pImpl, res'.args[2])
       /\ engine'.calls = engine.calls + 1
       /\ engine'.last.keep_graph = res'.args[2]
       /\ engine'.last.create_graph = FALSE]_vars

C9_Witness ==
  /\ res.op = "backward(Tensor)"
  /\ engine.calls = 2
  /\ res.args[2]
  /\ res.args[1].pImpl.grad_fn = "AddBackward"
  /\ engine.last.keep_graph

----------------------------------------------------------------------------
(* Properties of Variant, checked under SpecVariant *)

\* The nine tag predicates of v, in the order isVariable, isString, isList,
\* isDict, isFloat, isDouble, isBool, isInt32, isInt64
TagPredicates(v) ==
  <<isVariable(v), isString(v), isList(v), isDict(v), isGEN("float", v),
    isGEN("double", v), isGEN("bool", v), isGEN("int32_t", v), isGEN("int64_t", v)>>

ActiveTags(v) == {i \in 1..9 : TagPredicates(v)[i]}

\* The tag (its place in TagPredicates) and the getter of the constructor ctor
KindOf(ctor) ==
  CASE ctor \in {"Variant(Tensor)", "Variant(Variable)"} -> <<1, "get">>
    [] ctor = "Variant(string)" -> <<2, "getString">>
    [] ctor \in {"Variant(vector&)", "Variant(vector&&)", "Variant(initializer_list)"} ->
         <<3, "getList">>
    [] ctor \in {"Variant(map&)", "Variant(map&&)"} -> <<4, "getDict">>
    [] ctor = "Variant(float)" -> <<5, "getFloat">>
    [] ctor = "Variant(double)" -> <<6, "getDouble">>
    [] ctor = "Variant(bool)" -> <<7, "getBool">>
    [] ctor = "Variant(int32_t)" -> <<8, "getInt32">>
    [] ctor = "Variant(int64_t)" -> <<9, "getInt64">>

ConstOps ==
  {"get", "getString", "getList", "getDict", "isVariable", "isString", "isList", "isDict"}
    \cup {GetName(TYP) : TYP \in GenTypes} \cup {IsName(TYP) : TYP \in GenTypes}

\* C3: of a constructed Variant exactly one of the nine tag predicates is
\* true, the one of the kind it was constructed from, and that is so as well
\* after any const member function has run on it.
C3_ExactlyOneTag ==
  arg # <<>> =>
    /\ Cardinality(ActiveTags(variant_)) = 1
    /\ ActiveTags(variant_) = {KindOf(arg.ctor)[1]}

C3_Witness ==
  /\ arg # <<>>
  /\ arg.ctor = "Variant(int32_t)"
  /\ arg.x = 1
  /\ res.op = "getInt64"
  /\ res.outcome = "throw"
  /\ ActiveTags(variant_) = {8}

\* What the getter named g does on v
Getter(g, v) ==
  CASE g = "get" -> get(v)
    [] g = "getString" -> getString(v)
    [] g = "getList" -> getList(v)
    [] g = "getDict" -> getDict(v)
    [] g = "getFloat" -> getGEN("float", v)
    [] g = "getDouble" -> getGEN("double", v)
    [] g = "getBool" -> getGEN("bool", v)
    [] g = "getInt32" -> getGEN("int32_t", v)
    [] g = "getInt64" -> getGEN("int64_t", v)

\* C4: a Variant constructed from a value x of a kind reports the tag
\* predicate of that kind and its getter returns x; one constructed from a
\* Tensor is tagged Variable and get() returns the Variable of that tensor.
C4_RoundTrip ==
  (arg # <<>> /\ arg.ctor # "Variant(initializer_list)") =>
    LET k == KindOf(arg.ctor)
        x == IF arg.ctor = "Variant(Tensor)" THEN arg.x.pImpl ELSE arg.x
        g == Getter(k[2], variant_)
    IN  /\ TagPredicates(variant_)[k[1]]
        /\ g.outcome = "return"
        /\ g.value = x
        /\ res.op = k[2] => (res.outcome = "return" /\ res.value = x)

C4_Witness ==
  /\ arg # <<>>
  /\ arg.ctor = "Variant(Tensor)"
  /\ arg.x.pImpl.grad_fn = "AddBackward"
  /\ res.op = "get"
  /\ res.outcome = "return"
  /\ res.value = arg.x.pImpl

\* C10: a Variant constructed from an initializer list of n Variables is
\* tagged as a list and as nothing else, and getList() has n elements, the
\* i-th a Variant tagged Variable whose get() is the i-th Variable of the list.
C10_InitializerList ==
  (arg # <<>> /\ arg.ctor = "Variant(initializer_list)") =>
    LET g == getList(variant_)
    IN  /\ ActiveTags(variant_) = {3}
        /\ g.outcome = "return"
        /\ Len(g.value) = Len(arg.x)
        /\ \A i \in 1..Len(arg.x) :
             /\ ActiveTags(g.value[i]) = {1}
             /\ get(g.value[i]).outcome = "return"
             /\ get(g.value[i]).value = arg.x[i]
        /\ res.op = "getList" => res = g

C10_Witness ==
  /\ arg # <<>>
  /\ arg.ctor = "Variant(initializer_list)"
  /\ Len(arg.x) = 2
  /\ arg.x[1] # arg.x[2]
  /\ res.op = "getList"
  /\ Len(res.value) = 2

====
